---- MODULE Spec2Model ----
(***************************************************************************)
(* Radio Calico: the song-rating core of server.js (the three             *)
(* /api/ratings routes and getClientIp) over the song_ratings table        *)
(* created by database/db.js.                                              *)
(*                                                                         *)
(* Node runs every route handler to completion on one thread and           *)
(* better-sqlite3 is synchronous, so a handler is one atomic step; the     *)
(* concurrency of the system is the order in which requests that are in    *)
(* flight at the same time reach their handlers.                           *)
(*                                                                         *)
(* With it the browser side of public/script.js: the song id derived from  *)
(* artist and title, the ratings state of the page with its fetchRatings   *)
(* and submitRating calls, formatTime and the elapsed-time timer.          *)
(***************************************************************************)
EXTENDS Integers, Sequences, FiniteSets, Bags, TLC

VARIABLES
    song_ratings,   \* the song_ratings table: a bag of rows
    request,        \* Spec: the request the server is working on
    response,       \* Spec: the response sent for it, NoResponse while pending
    pc,             \* SpecRace: where each requester is in its check/submit flow
    sent,           \* SpecRace: the request each requester has issued
    reply,          \* SpecRace: the response each requester has received
    observed,       \* SpecRace: hasRated as seen in the requester's check reply
    input,          \* SpecIp, SpecSongId, SpecTime: the arguments of the call
    output,         \* SpecIp, SpecSongId, SpecTime: its result, NotCalled before
    isPlaying,      \* SpecTimer: script.js isPlaying
    elapsedSeconds, \* SpecTimer: script.js elapsedSeconds
    timerInterval,  \* SpecTimer: script.js timerInterval, Null or a handle
    activeIntervals,\* SpecTimer: the interval timers the browser is running
    pendingPlays,   \* SpecTimer: the audio.play() promises not yet settled
    currentSongId,  \* SpecClient: script.js currentSongId
    hasRatedCurrentSong, \* SpecClient: script.js hasRatedCurrentSong
    currentRating,  \* SpecClient: script.js currentRating
    nowPlaying,     \* SpecClient: the artist and title the page shows
    calls           \* SpecClient: the fetchRatings and submitRating calls
                    \* that are waiting for the server, a bag

vars == <<song_ratings, request, response, pc, sent, reply, observed, input, output,
          isPlaying, elapsedSeconds, timerInterval, activeIntervals, pendingPlays,
          currentSongId, hasRatedCurrentSong, currentRating, nowPlaying, calls>>

\* What the steps of Spec leave alone, and what the steps of SpecRace leave alone.
raceVars == <<pc, sent, reply, observed>>
exchangeVars == <<request, response>>
callVars == <<input, output>>
timerVars == <<isPlaying, elapsedSeconds, timerInterval, activeIntervals, pendingPlays>>
clientVars == <<currentSongId, hasRatedCurrentSong, currentRating, nowPlaying, calls>>
outsideSpec == <<raceVars, callVars, timerVars, clientVars>>
outsideRace == <<exchangeVars, callVars, timerVars, clientVars>>
outsideCalls == <<song_ratings, exchangeVars, raceVars, timerVars, clientVars>>
outsideTimer == <<song_ratings, exchangeVars, raceVars, callVars, clientVars>>
outsideClient == <<exchangeVars, raceVars, callVars, timerVars>>

NotCalled == [t |-> "not called"]

-----------------------------------------------------------------------------
(* JavaScript values.  A string is a tuple of one-character strings so     *)
(* that split and trim can be computed on it.                              *)

Undefined == [t |-> "undefined"]
Null == [t |-> "null"]
Num(n) == [t |-> "number", n |-> n]
Str(s) == [t |-> "string", s |-> s]

\* !v
Falsy(v) ==
    \/ v.t \in {"undefined", "null"}
    \/ v.t = "number" /\ v.n = 0
    \/ v.t = "string" /\ v.s = <<>>

\* a || b
Or(a, b) == IF Falsy(a) THEN b ELSE a

WhiteSpace == {" ", "\t"}

\* The TypeError raised by reading a property of undefined.
TypeError == [t |-> "TypeError"]

\* s.split(',').pop(): the last token where the code takes the first.
SplitLast(s) ==
    LET commas == {i \in 1..Len(s) : s[i] = ","}
    IN  IF commas = {} THEN s
        ELSE SubSeq(s, (CHOOSE i \in commas : \A j \in commas : j <= i) + 1, Len(s))

\* s.split(',')[0]
SplitFirst(s) ==
    LET commas == {i \in 1..Len(s) : s[i] = ","}
    IN  IF commas = {} THEN s
        ELSE SubSeq(s, 1, (CHOOSE i \in commas : \A j \in commas : i <= j) - 1)

\* s.trim()
Trim(s) ==
    LET solid == {i \in 1..Len(s) : s[i] \notin WhiteSpace}
    IN  IF solid = {} THEN <<>>
        ELSE SubSeq(s, CHOOSE i \in solid : \A j \in solid : i <= j,
                       CHOOSE i \in solid : \A j \in solid : j <= i)

\* getClientIp with the socket address ahead of the x-real-ip header.
getClientIpSocketFirst(req) ==
    LET xff == req.headers.x_forwarded_for
        first == IF xff = Undefined THEN Undefined
                 ELSE Str(Trim(SplitFirst(xff.s)))
    IN  Or(Or(Or(first, req.socket.remoteAddress),
              req.headers.x_real_ip),
           req.connection.remoteAddress)

\* getClientIp with .split in place of ?.split: an absent header raises.
getClientIpNoOptionalChain(req) ==
    LET xff == req.headers.x_forwarded_for
    IN  IF xff = Undefined THEN TypeError
        ELSE Or(Or(Or(Str(Trim(SplitFirst(xff.s))), req.headers.x_real_ip),
                   req.socket.remoteAddress),
                req.connection.remoteAddress)

\* getClientIp(req).  req.socket and req.connection are objects on every
\* request Node hands to a handler, so reading their remoteAddress cannot
\* raise; ?. covers the absent header.
getClientIp(req) ==
    LET xff == req.headers.x_forwarded_for
        first == IF xff = Undefined THEN Undefined
                 ELSE Str(Trim(SplitFirst(xff.s)))
    IN  Or(Or(Or(first, req.headers.x_real_ip),
              req.socket.remoteAddress),
           req.connection.remoteAddress)

-----------------------------------------------------------------------------
(* The song_ratings table and the statements the routes run on it.  The    *)
(* table is a bag of rows (song_id, user_id, rating): the columns id and   *)
(* created_at are never read by any route.  A bag, not a set, so that two  *)
(* rows with the same key are a state the table could be in if nothing     *)
(* prevented it.                                                           *)

Row(song, user, r) == [song_id |-> song, user_id |-> user, rating |-> r]

UniqueFailed == "UNIQUE constraint failed: song_ratings.song_id, song_ratings.user_id"
NotNullFailed == "NOT NULL constraint failed"
CheckFailed == "CHECK constraint failed"
IoError == "disk I/O error"

\* Every insert error taken for the uniqueness violation.
IncludesAnything(message) == TRUE

\* No insert error recognised as the uniqueness violation.
IncludesNothing(message) == FALSE

\* message.includes('UNIQUE constraint failed')
IncludesUniqueConstraintFailed(message) == message \in {UniqueFailed}

\* The storage faults a handler may meet: none, db.prepare throwing, the
\* INSERT failing for a reason other than a constraint, a SELECT failing.
Faults == {"none", "prepare", "run", "query"}

Threw(table, message) == [threw |-> TRUE, message |-> message, table |-> table]

\* better-sqlite3 binds undefined and null as SQL NULL
BindsNull(v) == v.t \in {"undefined", "null"}

\* A table declared without the UNIQUE constraint.
KeyNeverTaken(table, song, user) == FALSE

\* UNIQUE(song_id) in place of UNIQUE(song_id, user_id).
KeyTakenBySong(table, song, user) ==
    \E row \in BagToSet(table) : row.song_id = song

\* UNIQUE(user_id) in place of UNIQUE(song_id, user_id).
KeyTakenByUser(table, song, user) ==
    \E row \in BagToSet(table) : row.user_id = user

\* UNIQUE(song_id, user_id)
KeyTaken(table, song, user) ==
    \E row \in BagToSet(table) : row.song_id = song /\ row.user_id = user

Digits == {"0", "1", "2", "3", "4", "5", "6", "7", "8", "9"}
DigitValue(c) == CHOOSE n \in 0..9 : <<c, n>> \in
    {<<"0", 0>>, <<"1", 1>>, <<"2", 2>>, <<"3", 3>>, <<"4", 4>>,
     <<"5", 5>>, <<"6", 6>>, <<"7", 7>>, <<"8", 8>>, <<"9", 9>>}

\* What the INTEGER column rating stores for a bound value: a number as it
\* is, a text that reads as a digit converted by the column's affinity, any
\* other text kept as text.
StoredRating(rating) ==
    IF rating.t = "number" THEN rating.n
    ELSE IF Len(rating.s) = 1 /\ rating.s[1] \in Digits
        THEN DigitValue(rating.s[1])
    ELSE rating.s

\* CHECK(rating IN (1, -1))
RatingCheck(stored) == stored \in {1, -1}

\* INSERT OR REPLACE in place of INSERT: a second vote overwrites the first.
stmt_run_replace(table, songId, clientIp, rating, fault) ==
    IF fault = "run" THEN Threw(table, IoError)
    ELSE IF BindsNull(songId) \/ BindsNull(clientIp) \/ BindsNull(rating)
        THEN Threw(table, NotNullFailed)
    ELSE IF ~RatingCheck(StoredRating(rating))
        THEN Threw(table, CheckFailed)
    ELSE [threw |-> FALSE, message |-> "",
          table |-> SetToBag({row \in BagToSet(table) :
                                ~(row.song_id = songId.s /\ row.user_id = clientIp.s)})
                    (+) SetToBag({Row(songId.s, clientIp.s, StoredRating(rating))})]

\* user_id TEXT in place of user_id TEXT NOT NULL: an undefined identity
\* is stored as NULL (written <<>>), and NULLs never collide under UNIQUE.
stmt_run_nullable_user(table, songId, clientIp, rating, fault) ==
    IF fault = "run" THEN Threw(table, IoError)
    ELSE IF BindsNull(songId) \/ BindsNull(rating)
        THEN Threw(table, NotNullFailed)
    ELSE IF ~RatingCheck(StoredRating(rating))
        THEN Threw(table, CheckFailed)
    ELSE IF BindsNull(clientIp)
        THEN [threw |-> FALSE, message |-> "",
              table |-> table (+) SetToBag({Row(songId.s, <<>>, StoredRating(rating))})]
    ELSE IF KeyTaken(table, songId.s, clientIp.s)
        THEN Threw(table, UniqueFailed)
    ELSE [threw |-> FALSE, message |-> "",
          table |-> table (+) SetToBag({Row(songId.s, clientIp.s, StoredRating(rating))})]

\* stmt.run(songId, clientIp, rating) of
\* INSERT INTO song_ratings (song_id, user_id, rating) VALUES (?, ?, ?)
\* under the constraints of the table: NOT NULL, CHECK, UNIQUE.
stmt_run(table, songId, clientIp, rating, fault) ==
    IF fault = "run" THEN Threw(table, IoError)
    ELSE IF BindsNull(songId) \/ BindsNull(clientIp) \/ BindsNull(rating)
        THEN Threw(table, NotNullFailed)
    ELSE IF ~RatingCheck(StoredRating(rating))
        THEN Threw(table, CheckFailed)
    ELSE IF KeyTaken(table, songId.s, clientIp.s)
        THEN Threw(table, UniqueFailed)
    ELSE [threw |-> FALSE, message |-> "",
          table |-> table (+) SetToBag({Row(songId.s, clientIp.s, StoredRating(rating))})]

\* The count without its "AND rating = r".
CountRatingsAnyPolarity(table, songId, r) ==
    LET match == {row \in BagToSet(table) : row.song_id = songId.s}
    IN  BagCardinality([row \in match |-> table[row]])

\* The count without its "song_id = ?".
CountRatingsAllSongs(table, songId, r) ==
    LET match == {row \in BagToSet(table) : row.rating = r}
    IN  BagCardinality([row \in match |-> table[row]])

\* SELECT COUNT(*) as count FROM song_ratings WHERE song_id = ? AND rating = r
CountRatings(table, songId, r) ==
    LET match == {row \in BagToSet(table) :
                     row.song_id = songId.s /\ row.rating = r}
    IN  BagCardinality([row \in match |-> table[row]])

\* The lookup without its "AND user_id = ?".
SelectRatingAnyUser(table, songId, clientIp) ==
    LET match == {row \in BagToSet(table) : row.song_id = songId.s}
    IN  IF match = {} THEN Undefined
        ELSE Num((CHOOSE row \in match : TRUE).rating)

\* SELECT rating FROM song_ratings WHERE song_id = ? AND user_id = ?
\* .get() gives the first matching row, or undefined
SelectRating(table, songId, clientIp) ==
    LET match == IF BindsNull(clientIp) THEN {}
                 ELSE {row \in BagToSet(table) :
                          row.song_id = songId.s /\ row.user_id = clientIp.s}
    IN  IF match = {} THEN Undefined
        ELSE Num((CHOOSE row \in match : TRUE).rating)

-----------------------------------------------------------------------------
(* Responses and the three route handlers, each as the function from the   *)
(* table, the request and the storage fault it meets to the table it       *)
(* leaves and the response it sends.                                       *)

MissingFields == "Missing required fields: songId, rating"
BadRating == "Rating must be 1 (thumbs up) or -1 (thumbs down)"
AlreadyRated == "You have already rated this song"

NoRequest == [route |-> "none"]
NoResponse == [status |-> 0]

Error(status, message) == [status |-> status, error |-> message]

Handled(table, res) == [table |-> table, res |-> res]

\* app.get('/api/ratings/:songId')
getRatings(table, req, fault) ==
    LET songId == req.params.songId
    IN  IF fault \in {"prepare", "query"}
        THEN Handled(table, Error(500, IoError))
        ELSE Handled(table, [status |-> 200, songId |-> songId,
                             thumbsUp |-> CountRatings(table, songId, 1),
                             thumbsDown |-> CountRatings(table, songId, -1)])

\* A check that stores a thumbs-up for an asker it has not seen.
getRatingsCheckRecording(table, req, fault) ==
    LET songId == req.params.songId
        clientIp == getClientIp(req)
        ins == stmt_run(table, songId, clientIp, Num(1), fault)
        result == SelectRating(ins.table, songId, clientIp)
    IN  IF fault \in {"prepare", "query"}
        THEN Handled(table, Error(500, IoError))
        ELSE Handled(ins.table, [status |-> 200,
                                 hasRated |-> ~Falsy(result),
                                 rating |-> IF ~Falsy(result) THEN result ELSE Null])

\* app.get('/api/ratings/:songId/check')
getRatingsCheck(table, req, fault) ==
    LET songId == req.params.songId
        clientIp == getClientIp(req)
        result == SelectRating(table, songId, clientIp)
    IN  IF fault \in {"prepare", "query"}
        THEN Handled(table, Error(500, IoError))
        ELSE Handled(table, [status |-> 200,
                             hasRated |-> ~Falsy(result),
                             rating |-> IF ~Falsy(result) THEN result ELSE Null])

\* The test on the rating alone.
MissingRating(songId, rating) == Falsy(rating)

\* !songId || !rating
MissingRequired(songId, rating) == Falsy(songId) \/ Falsy(rating)

\* rating != 1 && rating != -1, which lets the string "1" through.
RatingLooselyOutOfRange(rating) ==
    /\ rating \notin {Num(1), Num(-1)}
    /\ ~(rating.t = "string" /\ Len(rating.s) = 1 /\ rating.s[1] = "1")

\* rating !== 1 && rating !== -1
RatingOutOfRange(rating) == rating # Num(1) /\ rating # Num(-1)

\* app.post('/api/ratings') with the counts taken before the INSERT.
postRatingsCountingFirst(table, req, fault) ==
    LET songId == req.body.songId
        rating == req.body.rating
        clientIp == getClientIp(req)
    IN  IF MissingRequired(songId, rating)
        THEN Handled(table, Error(400, MissingFields))
        ELSE IF RatingOutOfRange(rating)
        THEN Handled(table, Error(400, BadRating))
        ELSE IF fault = "prepare"
        THEN Handled(table, Error(500, IoError))
        ELSE LET ins == stmt_run(table, songId, clientIp, rating, fault)
             IN  IF ins.threw
                 THEN IF IncludesUniqueConstraintFailed(ins.message)
                      THEN Handled(table, Error(409, AlreadyRated))
                      ELSE Handled(table, Error(500, ins.message))
                 ELSE IF fault = "query"
                 THEN Handled(ins.table, Error(500, IoError))
                 ELSE Handled(ins.table,
                              [status |-> 201, success |-> TRUE, songId |-> songId,
                               thumbsUp |-> CountRatings(table, songId, 1),
                               thumbsDown |-> CountRatings(table, songId, -1)])

\* app.post('/api/ratings')
postRatings(table, req, fault) ==
    LET songId == req.body.songId
        rating == req.body.rating
        clientIp == getClientIp(req)
    IN  IF MissingRequired(songId, rating)
        THEN Handled(table, Error(400, MissingFields))
        ELSE IF RatingOutOfRange(rating)
        THEN Handled(table, Error(400, BadRating))
        ELSE IF fault = "prepare"
        THEN Handled(table, Error(500, IoError))
        ELSE LET ins == stmt_run(table, songId, clientIp, rating, fault)
             IN  IF ins.threw
                 THEN IF IncludesUniqueConstraintFailed(ins.message)
                      THEN Handled(table, Error(409, AlreadyRated))
                      ELSE Handled(table, Error(500, ins.message))
                 ELSE IF fault = "query"
                 THEN Handled(ins.table, Error(500, IoError))
                 ELSE Handled(ins.table,
                              [status |-> 201, success |-> TRUE, songId |-> songId,
                               thumbsUp |-> CountRatings(ins.table, songId, 1),
                               thumbsDown |-> CountRatings(ins.table, songId, -1)])

-----------------------------------------------------------------------------
(* The requests the server is offered.                                     *)

\* Song ids and addresses are short strings; the routes never look inside.
SongIds == {<<"x">>, <<"y">>}
IpA == <<"a">>
IpB == <<"b">>
IpC == <<"c">>

\* Where a request comes from: its forwarding headers and peer addresses.
Peer(xff, realIp, socketAddr, connAddr) ==
    [headers |-> [x_forwarded_for |-> xff, x_real_ip |-> realIp],
     socket |-> [remoteAddress |-> socketAddr],
     connection |-> [remoteAddress |-> connAddr]]

Peers ==
    { Peer(Str(<<" ", "a", " ", ",", " ", "b">>), Str(IpB), Str(IpB), Str(IpB)),
      Peer(Undefined, Str(IpB), Str(IpA), Str(IpA)),
      Peer(Undefined, Undefined, Str(IpA), Str(IpA)),
      Peer(Undefined, Undefined, Undefined, Str(IpB)),
      Peer(Str(<<" ">>), Undefined, Str(IpB), Str(IpB)),
      Peer(Undefined, Undefined, Undefined, Undefined) }

\* The songId and rating fields a POST body may carry; Undefined is a
\* missing field.
BodySongIds == {Undefined, Str(<<>>)} \cup {Str(s) : s \in SongIds}
BodyRatings == {Undefined, Num(0), Num(1), Num(-1), Num(2), Num(5), Str(<<"1">>)}

Request(route, peer, params, body) ==
    [route |-> route, headers |-> peer.headers, socket |-> peer.socket,
     connection |-> peer.connection, params |-> params, body |-> body]

NoBody == [songId |-> Undefined, rating |-> Undefined]
NoParams == [songId |-> Undefined]

PostRequests ==
    { Request("POST /api/ratings", p, NoParams, [songId |-> s, rating |-> r]) :
        p \in Peers, s \in BodySongIds, r \in BodyRatings }

GetRequests ==
    { Request("GET /api/ratings/:songId", p, [songId |-> Str(s)], NoBody) :
        p \in {Peer(Undefined, Undefined, Str(IpA), Str(IpA))}, s \in SongIds }

CheckRequests ==
    { Request("GET /api/ratings/:songId/check", p, [songId |-> Str(s)], NoBody) :
        p \in Peers, s \in SongIds }

Requests == PostRequests \cup GetRequests \cup CheckRequests

-----------------------------------------------------------------------------
(* Spec: the server takes one request after another; each handler runs to  *)
(* completion under whatever storage fault it meets.                       *)

\* let isPlaying = false; let elapsedSeconds = 0; let timerInterval = null;
PlayerLoaded ==
    /\ isPlaying = FALSE
    /\ elapsedSeconds = 0
    /\ timerInterval = Null
    /\ activeIntervals = 0
    /\ pendingPlays = 0

\* What the page shows before the first metadata has arrived.
NothingPlaying == [artist |-> Undefined, title |-> Undefined]

\* let currentSongId = null; let hasRatedCurrentSong = false;
\* let currentRating = null;
RatingsLoaded ==
    /\ currentSongId = Null
    /\ hasRatedCurrentSong = FALSE
    /\ currentRating = Null
    /\ nowPlaying = NothingPlaying
    /\ calls = EmptyBag

Init ==
    /\ song_ratings = EmptyBag
    /\ request = NoRequest
    /\ response = NoResponse
    /\ pc = <<>>
    /\ sent = <<>>
    /\ reply = <<>>
    /\ observed = <<>>
    /\ input = NotCalled
    /\ output = NotCalled
    /\ PlayerLoaded
    /\ RatingsLoaded

Pending == request # NoRequest /\ response = NoResponse

\* A request reaches the server.
Receive(req) ==
    /\ ~Pending
    /\ request' = req
    /\ response' = NoResponse
    /\ UNCHANGED <<song_ratings, outsideSpec>>

Serve(out) ==
    /\ song_ratings' = out.table
    /\ response' = out.res
    /\ UNCHANGED <<request, outsideSpec>>

GetRatings(fault) ==
    /\ Pending
    /\ request.route = "GET /api/ratings/:songId"
    /\ Serve(getRatings(song_ratings, request, fault))

GetRatingsCheck(fault) ==
    /\ Pending
    /\ request.route = "GET /api/ratings/:songId/check"
    /\ Serve(getRatingsCheck(song_ratings, request, fault))

PostRatings(fault) ==
    /\ Pending
    /\ request.route = "POST /api/ratings"
    /\ Serve(postRatings(song_ratings, request, fault))

Next ==
    \/ \E req \in Requests : Receive(req)
    \/ \E fault \in Faults : GetRatings(fault)
    \/ \E fault \in Faults : GetRatingsCheck(fault)
    \/ \E fault \in Faults : PostRatings(fault)

Spec == Init /\ [][Next]_vars

-----------------------------------------------------------------------------
(* SpecRace: several requesters, each going once through the flow of the   *)
(* browser client: ask the check route whether this identity has rated the *)
(* song (fetchRatings), and, having been told it has not, post a rating    *)
(* (submitRating).  Requests of different requesters are in flight at the  *)
(* same time and reach the server in any order; storage works.             *)

NumRequesters == 2

Requesters == 1..NumRequesters

\* Two network paths that resolve to the address a, one that resolves to b
\* and one that resolves to c.
RacePeers ==
    { Peer(Str(<<" ", "a", " ", ",", " ", "b">>), Str(IpB), Str(IpB), Str(IpB)),
      Peer(Undefined, Undefined, Str(IpA), Str(IpA)),
      Peer(Undefined, Str(IpB), Str(IpA), Str(IpA)),
      Peer(Str(IpC), Undefined, Str(IpA), Str(IpA)) }

InitRace ==
    /\ song_ratings = EmptyBag
    /\ request = NoRequest
    /\ response = NoResponse
    /\ pc = [r \in Requesters |-> "idle"]
    /\ sent = [r \in Requesters |-> NoRequest]
    /\ reply = [r \in Requesters |-> NoResponse]
    /\ observed = [r \in Requesters |-> Null]
    /\ input = NotCalled
    /\ output = NotCalled
    /\ PlayerLoaded
    /\ RatingsLoaded

\* fetchRatings: GET /api/ratings/:songId/check goes out.
SendCheck(r, song, peer) ==
    /\ pc[r] = "idle"
    /\ sent' = [sent EXCEPT ![r] =
                  Request("GET /api/ratings/:songId/check", peer,
                          [songId |-> Str(song)], NoBody)]
    /\ pc' = [pc EXCEPT ![r] = "checking"]
    /\ UNCHANGED <<song_ratings, reply, observed, outsideRace>>

\* The check route answers; the requester keeps checkData.hasRated.
ServeCheck(r) ==
    /\ pc[r] = "checking"
    /\ LET out == getRatingsCheck(song_ratings, sent[r], "none")
       IN  /\ song_ratings' = out.table
           /\ observed' = [observed EXCEPT ![r] = out.res.hasRated]
    /\ pc' = [pc EXCEPT ![r] = "checked"]
    /\ UNCHANGED <<sent, reply, outsideRace>>

\* submitRating: not sent when hasRatedCurrentSong is true; otherwise
\* POST /api/ratings goes out for the same song over the same path.
SendSubmit(r, rating) ==
    /\ pc[r] = "checked"
    /\ observed[r] = FALSE
    /\ sent' = [sent EXCEPT ![r] =
                  [@ EXCEPT !.route = "POST /api/ratings",
                            !.params = NoParams,
                            !.body = [songId |-> sent[r].params.songId,
                                      rating |-> Num(rating)]]]
    /\ pc' = [pc EXCEPT ![r] = "submitting"]
    /\ UNCHANGED <<song_ratings, reply, observed, outsideRace>>

\* The submit route answers.
ServeSubmit(r) ==
    /\ pc[r] = "submitting"
    /\ LET out == postRatings(song_ratings, sent[r], "none")
       IN  /\ song_ratings' = out.table
           /\ reply' = [reply EXCEPT ![r] = out.res]
    /\ pc' = [pc EXCEPT ![r] = "done"]
    /\ UNCHANGED <<sent, observed, outsideRace>>

NextRace ==
    \/ \E r \in Requesters, song \in SongIds, peer \in RacePeers :
          SendCheck(r, song, peer)
    \/ \E r \in Requesters : ServeCheck(r)
    \/ \E r \in Requesters, rating \in {1, -1} : SendSubmit(r, rating)
    \/ \E r \in Requesters : ServeSubmit(r)

SpecRace == InitRace /\ [][NextRace]_vars

-----------------------------------------------------------------------------
(* SpecIp: getClientIp called once on a request whose four address sources *)
(* are each absent, empty, padded or plain.                                *)

IpD == <<"d">>

ForwardedFors ==
    { Undefined, Str(<<>>), Str(<<" ">>), Str(IpA), Str(<<" ", "a", "\t">>),
      Str(<<"a", ",", "b">>), Str(<<" ", "a", " ", ",", " ", "b">>),
      Str(<<",", "b">>), Str(<<" ", ",", "a">>) }
RealIps == {Undefined, Str(<<>>), Str(IpB), Str(<<" ", "b">>)}
SocketAddrs == {Undefined, Str(IpC)}
ConnectionAddrs == {Undefined, Str(IpD)}

IpRequests ==
    { Peer(xff, realIp, socketAddr, connAddr) :
        xff \in ForwardedFors, realIp \in RealIps,
        socketAddr \in SocketAddrs, connAddr \in ConnectionAddrs }

InitIp ==
    /\ song_ratings = EmptyBag
    /\ request = NoRequest
    /\ response = NoResponse
    /\ pc = <<>>
    /\ sent = <<>>
    /\ reply = <<>>
    /\ observed = <<>>
    /\ input \in IpRequests
    /\ output = NotCalled
    /\ PlayerLoaded
    /\ RatingsLoaded

\* const userId = getClientIp(req)
ResolveIp ==
    /\ output = NotCalled
    /\ output' = getClientIp(input)
    /\ UNCHANGED <<input, outsideCalls>>

NextIp == ResolveIp

SpecIp == InitIp /\ [][NextIp]_vars

-----------------------------------------------------------------------------
(* SpecSongId: the song id the client derives from the artist and title of *)
(* the track that is playing, computed once for a pair of short texts.     *)

UpperCase == <<"A", "B", "C", "D", "E", "F", "G", "H", "I", "J", "K", "L", "M",
               "N", "O", "P", "Q", "R", "S", "T", "U", "V", "W", "X", "Y", "Z">>
LowerCase == <<"a", "b", "c", "d", "e", "f", "g", "h", "i", "j", "k", "l", "m",
               "n", "o", "p", "q", "r", "s", "t", "u", "v", "w", "x", "y", "z">>

\* One character of s.toLowerCase()
ToLowerCaseChar(c) ==
    IF \E i \in 1..26 : UpperCase[i] = c
    THEN LowerCase[CHOOSE i \in 1..26 : UpperCase[i] = c]
    ELSE c

\* s.toLowerCase()
ToLowerCase(s) == [i \in 1..Len(s) |-> ToLowerCaseChar(s[i])]

\* The characters the class [^a-z0-9||] does not match: a to z, 0 to 9 and
\* the bar, which is an ordinary character inside a class.
Kept(c) ==
    \/ \E i \in 1..26 : LowerCase[i] = c
    \/ c \in Digits
    \/ c = "|"

\* `${artist}||${title}`.toLowerCase().replace(/[^a-z0-9||]/g, '')
generateSongId(artist, title) ==
    Str(SelectSeq(ToLowerCase(artist.s \o <<"|", "|">> \o title.s), Kept))

MaxTextLen == 2
TextAlphabet == {"A", "b", "1", " ", "|", "!"}
Texts == UNION {[1..n -> TextAlphabet] : n \in 0..MaxTextLen}

SongIdCalls == {[artist |-> Str(a), title |-> Str(t)] : a \in Texts, t \in Texts}

InitSongId ==
    /\ song_ratings = EmptyBag
    /\ request = NoRequest
    /\ response = NoResponse
    /\ pc = <<>>
    /\ sent = <<>>
    /\ reply = <<>>
    /\ observed = <<>>
    /\ input \in SongIdCalls
    /\ output = NotCalled
    /\ PlayerLoaded
    /\ RatingsLoaded

\* const newSongId = ...
GenerateSongId ==
    /\ output = NotCalled
    /\ output' = generateSongId(input.artist, input.title)
    /\ UNCHANGED <<input, outsideCalls>>

NextSongId == GenerateSongId

SpecSongId == InitSongId /\ [][NextSongId]_vars

-----------------------------------------------------------------------------
(* SpecTime: formatTime called once on a number of seconds.                *)

DigitChar(n) == CHOOSE c \in Digits : DigitValue(c) = n

\* n.toString() for a non-negative integer below 10^21, where the decimal
\* digits are all there is.
RECURSIVE NumberToString(_)
NumberToString(n) ==
    IF n < 10 THEN <<DigitChar(n)>>
    ELSE NumberToString(n \div 10) \o <<DigitChar(n % 10)>>

\* s.padStart(targetLength, pad) for a one-character pad
RECURSIVE PadStart(_, _, _)
PadStart(s, targetLength, pad) ==
    IF Len(s) >= targetLength THEN s
    ELSE PadStart(<<pad>> \o s, targetLength, pad)

\* formatTime with the minutes wrapped at the hour.
formatTimeOfTheHour(seconds) ==
    LET mins == (seconds \div 60) % 60
        secs == seconds % 60
    IN  Str(NumberToString(mins) \o <<":">> \o PadStart(NumberToString(secs), 2, "0"))

\* formatTime(seconds)
formatTime(seconds) ==
    LET mins == seconds \div 60
        secs == seconds % 60
    IN  Str(NumberToString(mins) \o <<":">> \o PadStart(NumberToString(secs), 2, "0"))

MaxSeconds == 3605

InitTime ==
    /\ song_ratings = EmptyBag
    /\ request = NoRequest
    /\ response = NoResponse
    /\ pc = <<>>
    /\ sent = <<>>
    /\ reply = <<>>
    /\ observed = <<>>
    /\ input \in 0..MaxSeconds
    /\ output = NotCalled
    /\ PlayerLoaded
    /\ RatingsLoaded

\* formatTime(elapsedSeconds)
FormatTime ==
    /\ output = NotCalled
    /\ output' = formatTime(input)
    /\ UNCHANGED <<input, outsideCalls>>

NextTime == FormatTime

SpecTime == InitTime /\ [][NextTime]_vars

-----------------------------------------------------------------------------
(* SpecTimer: the elapsed-time timer of the player under play-button       *)
(* clicks, the settling of audio.play(), the audio element's events and    *)
(* the ticks of the interval timers.  The texts the handlers write into    *)
(* the page are left out.                                                  *)

MaxElapsed == 12
MaxPendingPlays == 2

\* The handle setInterval returns: a positive number.
Handle == Num(1)

Timer(handle, active) == [timerInterval |-> handle, activeIntervals |-> active]

\* startTimer without its test: every call starts another interval.
startTimerUnguarded(timer) ==
    Timer(Handle, timer.activeIntervals + 1)

\* startTimer()
startTimer(timer) ==
    IF Falsy(timer.timerInterval)
    THEN Timer(Handle, timer.activeIntervals + 1)
    ELSE timer

\* stopTimer()
stopTimer(timer) ==
    IF ~Falsy(timer.timerInterval)
    THEN Timer(Null, timer.activeIntervals - 1)
    ELSE timer

TimerNow == Timer(timerInterval, activeIntervals)

SetTimer(timer) ==
    /\ timerInterval' = timer.timerInterval
    /\ activeIntervals' = timer.activeIntervals

InitTimer ==
    /\ song_ratings = EmptyBag
    /\ request = NoRequest
    /\ response = NoResponse
    /\ pc = <<>>
    /\ sent = <<>>
    /\ reply = <<>>
    /\ observed = <<>>
    /\ input = NotCalled
    /\ output = NotCalled
    /\ PlayerLoaded
    /\ RatingsLoaded

\* playButton click
ClickPlay ==
    /\ IF ~isPlaying
       THEN /\ pendingPlays < MaxPendingPlays
            /\ pendingPlays' = pendingPlays + 1
            /\ UNCHANGED <<isPlaying, timerInterval, activeIntervals>>
       ELSE /\ isPlaying' = FALSE
            /\ SetTimer(stopTimer(TimerNow))
            /\ UNCHANGED pendingPlays
    /\ UNCHANGED <<elapsedSeconds, outsideTimer>>

\* audio.play().then(...)
PlayStarted ==
    /\ pendingPlays > 0
    /\ pendingPlays' = pendingPlays - 1
    /\ isPlaying' = TRUE
    /\ SetTimer(startTimer(TimerNow))
    /\ UNCHANGED <<elapsedSeconds, outsideTimer>>

\* audio.play().catch(...)
PlayFailed ==
    /\ pendingPlays > 0
    /\ pendingPlays' = pendingPlays - 1
    /\ UNCHANGED <<isPlaying, elapsedSeconds, timerInterval, activeIntervals, outsideTimer>>

\* audio 'waiting' and audio 'pause'
AudioWaitingOrPause ==
    /\ SetTimer(stopTimer(TimerNow))
    /\ UNCHANGED <<isPlaying, elapsedSeconds, pendingPlays, outsideTimer>>

\* audio 'playing'
AudioPlaying ==
    /\ SetTimer(startTimer(TimerNow))
    /\ UNCHANGED <<isPlaying, elapsedSeconds, pendingPlays, outsideTimer>>

\* audio 'ended'
AudioEnded ==
    /\ isPlaying' = FALSE
    /\ SetTimer(stopTimer(TimerNow))
    /\ UNCHANGED <<elapsedSeconds, pendingPlays, outsideTimer>>

\* updateTimeDisplay(), run by an interval timer that is active
updateTimeDisplay ==
    /\ activeIntervals > 0
    /\ elapsedSeconds < MaxElapsed
    /\ elapsedSeconds' = IF isPlaying THEN elapsedSeconds + 1 ELSE elapsedSeconds
    /\ UNCHANGED <<isPlaying, timerInterval, activeIntervals, pendingPlays, outsideTimer>>

NextTimer ==
    \/ ClickPlay
    \/ PlayStarted
    \/ PlayFailed
    \/ AudioWaitingOrPause
    \/ AudioPlaying
    \/ AudioEnded
    \/ updateTimeDisplay

SpecTimer == InitTimer /\ [][NextTimer]_vars

-----------------------------------------------------------------------------
(* SpecClient: one browser page against the server.  Metadata updates      *)
(* arrive, the listener clicks the rating buttons, and every fetch of      *)
(* fetchRatings and submitRating is two steps apart from the code after    *)
(* its await: the server handling the request, and the response reaching   *)
(* the page.  Another listener rates from another address meanwhile.  The  *)
(* texts and button classes the handlers write into the page are left out. *)

MaxCalls == 2

UnknownTrack == <<"U", "n", "k", "n", "o", "w", "n", " ", "T", "r", "a", "c", "k">>
UnknownArtist == <<"U", "n", "k", "n", "o", "w", "n", " ", "A", "r", "t", "i", "s", "t">>

\* data.title || data.song || 'Unknown Track'
TitleOf(data) == Or(Or(data.title, data.song), Str(UnknownTrack))

\* data.artist || 'Unknown Artist'
ArtistOf(data) == Or(data.artist, Str(UnknownArtist))

\* The metadata the stream publishes: two tracks whose artist and title
\* hold bars, and one without an artist whose title is under "song".
Metadata ==
    { [artist |-> Str(<<"a", "|", "|", "b">>), title |-> Str(<<"c">>),
       song |-> Undefined],
      [artist |-> Str(<<"a">>), title |-> Str(<<"b", "|", "|", "c">>),
       song |-> Undefined],
      [artist |-> Undefined, title |-> Undefined, song |-> Str(<<"E">>)] }

\* The song id of every metadata, computed once.
SongIdOf ==
    [data \in Metadata |-> generateSongId(ArtistOf(data), TitleOf(data))]

\* A song id that carries the id before it along.
NewSongIdAfterCurrent(data) ==
    IF currentSongId = Null
    THEN generateSongId(ArtistOf(data), TitleOf(data))
    ELSE generateSongId(Str(currentSongId.s \o ArtistOf(data).s), TitleOf(data))

\* const newSongId = ...
NewSongId(data) == SongIdOf[data]

\* encodeURIComponent(songId): letters and digits stay, a bar is escaped.
RECURSIVE encodeURIComponent(_)
encodeURIComponent(s) ==
    IF s = <<>> THEN <<>>
    ELSE (IF Head(s) = "|" THEN <<"%", "7", "C">> ELSE <<Head(s)>>)
            \o encodeURIComponent(Tail(s))

\* req.params.songId: the path segment with its escapes undone.
RECURSIVE DecodeParam(_)
DecodeParam(s) ==
    IF s = <<>> THEN <<>>
    ELSE IF Len(s) >= 3 /\ SubSeq(s, 1, 3) = <<"%", "7", "C">>
        THEN <<"|">> \o DecodeParam(SubSeq(s, 4, Len(s)))
    ELSE <<Head(s)>> \o DecodeParam(Tail(s))

\* The page's own path to the server, and the other listener's.
ClientPeer == Peer(Undefined, Undefined, Str(IpA), Str(IpA))
OtherPeer == Peer(Undefined, Undefined, Str(IpB), Str(IpB))

\* A call of fetchRatings or submitRating at one of its awaits.
Call(fn, songId, rating, at, res) ==
    [fn |-> fn, songId |-> songId, rating |-> rating, at |-> at, res |-> res]

Moved(c, at, res) == Call(c.fn, c.songId, c.rating, at, res)

Replace(c, d) == (calls (-) SetToBag({c})) (+) SetToBag({d})

\* fetch(`/api/ratings/${encodeURIComponent(songId)}`) and .../check
TallyRequest(c) ==
    Request("GET /api/ratings/:songId", ClientPeer,
            [songId |-> Str(DecodeParam(encodeURIComponent(c.songId.s)))], NoBody)
CheckRequest(c) ==
    Request("GET /api/ratings/:songId/check", ClientPeer,
            [songId |-> Str(DecodeParam(encodeURIComponent(c.songId.s)))], NoBody)

\* fetch('/api/ratings', {method: 'POST', body: {songId, rating}})
SubmitRequest(peer, songId, rating) ==
    Request("POST /api/ratings", peer, NoParams,
            [songId |-> songId, rating |-> rating])

InitClient ==
    /\ song_ratings = EmptyBag
    /\ request = NoRequest
    /\ response = NoResponse
    /\ pc = <<>>
    /\ sent = <<>>
    /\ reply = <<>>
    /\ observed = <<>>
    /\ input = NotCalled
    /\ output = NotCalled
    /\ PlayerLoaded
    /\ RatingsLoaded

\* updateNowPlaying that fetches the ratings whether the song changed or not.
UpdateNowPlayingAlwaysFetching(data) ==
    /\ BagCardinality(calls) < MaxCalls
    /\ nowPlaying' = [artist |-> ArtistOf(data), title |-> TitleOf(data)]
    /\ currentSongId' = NewSongId(data)
    /\ hasRatedCurrentSong' = FALSE
    /\ calls' = calls (+) SetToBag({Call("fetchRatings", NewSongId(data),
                                          Null, "tally", NoResponse)})
    /\ UNCHANGED <<song_ratings, currentRating, outsideClient>>

\* updateNowPlaying(data)
UpdateNowPlaying(data) ==
    /\ nowPlaying' = [artist |-> ArtistOf(data), title |-> TitleOf(data)]
    /\ IF NewSongId(data) # currentSongId
       THEN /\ BagCardinality(calls) < MaxCalls
            /\ currentSongId' = NewSongId(data)
            /\ hasRatedCurrentSong' = FALSE
            /\ calls' = calls (+) SetToBag({Call("fetchRatings", NewSongId(data),
                                                  Null, "tally", NoResponse)})
       ELSE UNCHANGED <<currentSongId, hasRatedCurrentSong, calls>>
    /\ UNCHANGED <<song_ratings, currentRating, outsideClient>>

\* The tally route answers the first fetch of fetchRatings.
TallyServed(c) ==
    /\ c.fn = "fetchRatings" /\ c.at = "tally"
    /\ LET out == getRatings(song_ratings, TallyRequest(c), "none")
       IN  /\ song_ratings' = out.table
           /\ calls' = Replace(c, Moved(c, "tallied", out.res))
    /\ UNCHANGED <<currentSongId, hasRatedCurrentSong, currentRating, nowPlaying,
                   outsideClient>>

\* fetchRatings after its first await: the counts go on the page and the
\* check request goes out.
TallyArrives(c) ==
    /\ c.fn = "fetchRatings" /\ c.at = "tallied"
    /\ calls' = Replace(c, Moved(c, "check", NoResponse))
    /\ UNCHANGED <<song_ratings, currentSongId, hasRatedCurrentSong, currentRating,
                   nowPlaying, outsideClient>>

\* The check route answers the second fetch of fetchRatings.
CheckServed(c) ==
    /\ c.fn = "fetchRatings" /\ c.at = "check"
    /\ LET out == getRatingsCheck(song_ratings, CheckRequest(c), "none")
       IN  /\ song_ratings' = out.table
           /\ calls' = Replace(c, Moved(c, "checked", out.res))
    /\ UNCHANGED <<currentSongId, hasRatedCurrentSong, currentRating, nowPlaying,
                   outsideClient>>

\* fetchRatings after its second await
CheckArrives(c) ==
    /\ c.fn = "fetchRatings" /\ c.at = "checked"
    /\ IF c.res.hasRated
       THEN /\ hasRatedCurrentSong' = TRUE
            /\ currentRating' = c.res.rating
       ELSE /\ hasRatedCurrentSong' = FALSE
            /\ currentRating' = Null
    /\ calls' = calls (-) SetToBag({c})
    /\ UNCHANGED <<song_ratings, currentSongId, nowPlaying, outsideClient>>

\* A click on a rating button: submitRating(rating) up to its fetch.  The
\* two early returns leave everything as it is.
ClickRating(rating) ==
    /\ ~Falsy(currentSongId)
    /\ ~hasRatedCurrentSong
    /\ BagCardinality(calls) < MaxCalls
    /\ calls' = calls (+) SetToBag({Call("submitRating", currentSongId,
                                          Num(rating), "post", NoResponse)})
    /\ UNCHANGED <<song_ratings, currentSongId, hasRatedCurrentSong, currentRating,
                   nowPlaying, outsideClient>>

\* The submit route answers the page's POST.
SubmitServed(c) ==
    /\ c.fn = "submitRating" /\ c.at = "post"
    /\ LET out == postRatings(song_ratings,
                              SubmitRequest(ClientPeer, c.songId, c.rating), "none")
       IN  /\ song_ratings' = out.table
           /\ calls' = Replace(c, Moved(c, "posted", out.res))
    /\ UNCHANGED <<currentSongId, hasRatedCurrentSong, currentRating, nowPlaying,
                   outsideClient>>

\* submitRating after its await
SubmitArrives(c) ==
    /\ c.fn = "submitRating" /\ c.at = "posted"
    /\ IF c.res.status = 201
       THEN /\ hasRatedCurrentSong' = TRUE
            /\ currentRating' = c.rating
       ELSE IF c.res.status = 409
       THEN /\ hasRatedCurrentSong' = TRUE
            /\ UNCHANGED currentRating
       ELSE UNCHANGED <<hasRatedCurrentSong, currentRating>>
    /\ calls' = calls (-) SetToBag({c})
    /\ UNCHANGED <<song_ratings, currentSongId, nowPlaying, outsideClient>>

\* A fetch is rejected (the network fails): the catch of fetchRatings or of
\* submitRating runs and the call is over.
FetchFails(c) ==
    /\ calls' = calls (-) SetToBag({c})
    /\ UNCHANGED <<song_ratings, currentSongId, hasRatedCurrentSong, currentRating,
                   nowPlaying, outsideClient>>

\* The song the other listener likes.
OtherListenerSongs == {generateSongId(Str(UnknownArtist), Str(<<"E">>))}

\* The other listener's POST is answered.
OtherListenerRates(songId) ==
    /\ LET out == postRatings(song_ratings,
                              SubmitRequest(OtherPeer, songId, Num(1)),
                              "none")
       IN  /\ out.res.status = 201
           /\ song_ratings' = out.table
    /\ UNCHANGED <<clientVars, outsideClient>>

NextClient ==
    \/ \E data \in Metadata : UpdateNowPlaying(data)
    \/ \E c \in BagToSet(calls) : TallyServed(c)
    \/ \E c \in BagToSet(calls) : TallyArrives(c)
    \/ \E c \in BagToSet(calls) : CheckServed(c)
    \/ \E c \in BagToSet(calls) : CheckArrives(c)
    \/ \E rating \in {1, -1} : ClickRating(rating)
    \/ \E c \in BagToSet(calls) : SubmitServed(c)
    \/ \E c \in BagToSet(calls) : SubmitArrives(c)
    \/ \E c \in BagToSet(calls) : FetchFails(c)
    \/ \E songId \in OtherListenerSongs : OtherListenerRates(songId)

SpecClient == InitClient /\ [][NextClient]_vars

-----------------------------------------------------------------------------
(* Vocabulary of the properties.                                           *)

RECURSIVE SumCopies(_, _)
SumCopies(rows, table) ==
    IF rows = {} THEN 0
    ELSE LET row == CHOOSE row \in rows : TRUE
         IN  CopiesIn(row, table) + SumCopies(rows \ {row}, table)

\* The number of stored rows of a song with a polarity, and of a key.
StoredVotes(table, song, r) ==
    SumCopies({row \in BagToSet(table) : row.song_id = song /\ row.rating = r},
              table)

StoredForKey(table, song, user) ==
    SumCopies({row \in BagToSet(table) : row.song_id = song /\ row.user_id = user},
              table)

\* The payload passes validation as the contract states it: a non-empty
\* songId and a rating that is the number 1 or the number -1.
ValidPayload(req) ==
    /\ req.body.songId.t = "string" /\ req.body.songId.s # <<>>
    /\ req.body.rating.t = "number" /\ req.body.rating.n \in {1, -1}

IsPost(req) == req.route = "POST /api/ratings"
IsGet(req) == req.route = "GET /api/ratings/:songId"
IsCheck(req) == req.route = "GET /api/ratings/:songId/check"

\* The step in which the pending POST /api/ratings is answered.
PostAnswered == Pending /\ IsPost(request) /\ response' # NoResponse

\* The identity of the pending or answered request already has a row for
\* the song it names.
AlreadyVoted(table, req) ==
    /\ req.body.songId.t = "string"
    /\ getClientIp(req).t = "string"
    /\ StoredForKey(table, req.body.songId.s, getClientIp(req).s) >= 1

-----------------------------------------------------------------------------
\* C1: after any sequence of submits the table holds at most one row for
\* every (song_id, user_id) pair.
AtMostOneVotePerPair ==
    \A row \in BagToSet(song_ratings) :
        StoredForKey(song_ratings, row.song_id, row.user_id) = 1

\* A second submit for a stored pair has been answered and the pair still
\* has its one row.
AtMostOneVotePerPairWitness ==
    /\ IsPost(request) /\ response.status = 409
    /\ StoredForKey(song_ratings, request.body.songId.s, getClientIp(request).s) = 1

\* C3: a valid submit by an identity that already has a vote for the song
\* leaves the table, and so the tally of the song, as it was, whatever the
\* rating it carries and whatever fault storage raises; with storage
\* working it is answered 409.
DuplicateSubmitRejected ==
    [][(PostAnswered /\ ValidPayload(request) /\ AlreadyVoted(song_ratings, request))
        => /\ song_ratings' = song_ratings
           /\ \A r \in {1, -1} :
                StoredVotes(song_ratings', request.body.songId.s, r)
                    = StoredVotes(song_ratings, request.body.songId.s, r)
           /\ PostRatings("none")
                => response' = Error(409, AlreadyRated)]_vars

\* A duplicate carrying the opposite rating has been answered 409 and the
\* stored row still has the first rating.
DuplicateSubmitRejectedWitness ==
    /\ IsPost(request) /\ response.status = 409
    /\ \E row \in BagToSet(song_ratings) :
         /\ row.song_id = request.body.songId.s
         /\ row.user_id = getClientIp(request).s
         /\ row.rating = -request.body.rating.n

\* C4: an answered get-tally carries, for its songId, the number of stored
\* rows with rating 1 as thumbsUp and with rating -1 as thumbsDown (so 0
\* and 0 for a song with no rows).
TallyCountsStoredRows ==
    (IsGet(request) /\ response.status = 200)
        => /\ response.thumbsUp
                = StoredVotes(song_ratings, request.params.songId.s, 1)
           /\ response.thumbsDown
                = StoredVotes(song_ratings, request.params.songId.s, -1)

\* A tally of one up and one down has been returned while the other song
\* has rows of its own.
TallyCountsStoredRowsWitness ==
    /\ IsGet(request) /\ response.status = 200
    /\ response.thumbsUp = 1 /\ response.thumbsDown = 1
    /\ \E row \in BagToSet(song_ratings) :
         row.song_id # request.params.songId.s

\* C5: a submit answered 201 adds exactly the row (songId, identity,
\* rating); the tally it returns is the tally of the song before the call
\* with the submitted polarity one higher; the tallies of every other song
\* are unchanged.
SubmitAddsOneVote ==
    [][(PostAnswered /\ response'.status = 201)
        => LET song == request.body.songId.s
               r == request.body.rating.n
           IN  /\ song_ratings' = song_ratings
                    (+) SetToBag({Row(song, getClientIp(request).s, r)})
               /\ BagCardinality(song_ratings') = BagCardinality(song_ratings) + 1
               /\ response'.thumbsUp
                    = StoredVotes(song_ratings, song, 1) + (IF r = 1 THEN 1 ELSE 0)
               /\ response'.thumbsDown
                    = StoredVotes(song_ratings, song, -1) + (IF r = -1 THEN 1 ELSE 0)
               /\ \A other \in SongIds \ {song}, q \in {1, -1} :
                    StoredVotes(song_ratings', other, q)
                        = StoredVotes(song_ratings, other, q)]_vars

\* A submit has been answered 201 with a tally that counts an earlier vote
\* for the same song as well.
SubmitAddsOneVoteWitness ==
    /\ IsPost(request) /\ response.status = 201
    /\ response.thumbsUp + response.thumbsDown = 2

\* C6: a submit whose rating is not exactly the number 1 or the number -1
\* is answered 400 and the table is left as it was, whatever fault storage
\* would have raised.
InvalidRatingRejected ==
    [][(PostAnswered /\ request.body.rating \notin {Num(1), Num(-1)})
        => /\ response'.status = 400
           /\ song_ratings' = song_ratings]_vars

\* The string "1" has been rejected for a song that has a stored vote.
InvalidRatingRejectedWitness ==
    /\ IsPost(request) /\ response.status = 400
    /\ request.body.rating = Str(<<"1">>)
    /\ request.body.songId.t = "string"
    /\ StoredVotes(song_ratings, request.body.songId.s, 1) = 1

\* C7: the 'Missing required fields' error is sent only when songId or
\* rating is absent from the request (songId missing or empty, rating
\* missing), and a request with a songId whose rating is present but not 1
\* or -1 is answered 400 with the 'Rating must be ...' error.
ValidationErrorsToldApart ==
    (IsPost(request) /\ response # NoResponse)
        => LET songId == request.body.songId
               rating == request.body.rating
               songIdAbsent == songId \in {Undefined, Null, Str(<<>>)}
               ratingAbsent == rating \in {Undefined, Null}
           IN  /\ response = Error(400, MissingFields)
                    => (songIdAbsent \/ ratingAbsent)
               /\ (~songIdAbsent /\ ~ratingAbsent /\ rating \notin {Num(1), Num(-1)})
                    => response = Error(400, BadRating)

\* C8: a submit with a missing or empty songId, or with a missing rating,
\* is answered 400 and inserts no row, whatever the identity and whatever
\* fault storage would have raised.
MissingFieldRejected ==
    [][(PostAnswered /\ (\/ request.body.songId \in {Undefined, Str(<<>>)}
                         \/ request.body.rating = Undefined))
        => /\ response'.status = 400
           /\ song_ratings' = song_ratings]_vars

\* A submit without songId, carrying a good rating and coming from a peer
\* with no resolvable identity, has been answered 400.
MissingFieldRejectedWitness ==
    /\ IsPost(request) /\ response.status = 400
    /\ request.body.songId = Undefined
    /\ request.body.rating = Num(1)
    /\ getClientIp(request) = Undefined

\* C9: every submit is answered 201, 400, 409 or 500.  409 is sent only
\* for a valid payload whose (songId, identity) already has a row, and,
\* storage working, always for one; a valid submit that meets a storage
\* failure other than the uniqueness violation (db.prepare or the INSERT
\* failing, the count after a successful INSERT failing, an identity that
\* storage refuses) is answered 500.
SubmitOutcomes ==
    [][PostAnswered
        => /\ response'.status \in {201, 400, 409, 500}
           /\ response'.status = 409
                => ValidPayload(request) /\ AlreadyVoted(song_ratings, request)
           /\ (PostRatings("none") /\ ValidPayload(request)
                    /\ AlreadyVoted(song_ratings, request))
                => response'.status = 409
           /\ \A fault \in {"prepare", "run"} :
                (PostRatings(fault) /\ ValidPayload(request))
                    => response'.status = 500
           /\ (PostRatings("query") /\ ValidPayload(request)
                    /\ ~AlreadyVoted(song_ratings, request))
                => response'.status = 500
           /\ (ValidPayload(request) /\ getClientIp(request) = Undefined)
                => response'.status = 500]_vars

\* A valid submit for a pair that has no row has been answered 500.
SubmitOutcomesWitness ==
    /\ IsPost(request) /\ response.status = 500
    /\ ValidPayload(request)
    /\ getClientIp(request) # Undefined
    /\ ~AlreadyVoted(song_ratings, request)

\* C10: in every execution of submit, storage failing or not, either one
\* row is inserted and the answer is 201, or the table is left as it was.
SubmitAllOrNothing ==
    [][PostAnswered
        => \/ song_ratings' = song_ratings
           \/ /\ response'.status = 201
              /\ BagCardinality(song_ratings') = BagCardinality(song_ratings) + 1]_vars

\* C2: when submissions for one (songId, identity) race, each requester
\* having been told hasRated = false by the check route beforehand, then
\* once they are answered the pair has exactly one row, exactly one of the
\* submissions was answered 201 and every other one 409.
SamePair(r1, r2) ==
    /\ sent[r1].body.songId = sent[r2].body.songId
    /\ getClientIp(sent[r1]) = getClientIp(sent[r2])

RaceHasOneWinner ==
    \A r1 \in Requesters :
        pc[r1] = "done"
            => LET racers == {r \in Requesters : pc[r] = "done" /\ SamePair(r, r1)}
               IN  /\ \A r \in racers : observed[r] = FALSE
                   /\ StoredForKey(song_ratings, sent[r1].body.songId.s,
                                   getClientIp(sent[r1]).s) = 1
                   /\ Cardinality({r \in racers : reply[r].status = 201}) = 1
                   /\ \A r \in racers : reply[r].status \in {201, 409}

\* Two requesters were both told hasRated = false for the same pair, both
\* submitted, with opposite ratings, and both have been answered.
RaceHasOneWinnerWitness ==
    \E r1, r2 \in Requesters :
        /\ r1 # r2
        /\ pc[r1] = "done" /\ pc[r2] = "done"
        /\ SamePair(r1, r2)
        /\ sent[r1].headers # sent[r2].headers
        /\ sent[r1].body.rating # sent[r2].body.rating
        /\ observed[r1] = FALSE /\ observed[r2] = FALSE
        /\ reply[r1].status = 201 /\ reply[r2].status = 409

-----------------------------------------------------------------------------
\* C11: votes are never changed and never removed: every row of the table
\* is in the table, as many times and with the same rating, after any
\* step of any tally, check or submit request.
VotesOnlyGrow ==
    [][\A row \in BagToSet(song_ratings) :
          CopiesIn(row, song_ratings') >= CopiesIn(row, song_ratings)]_vars

\* Three votes are stored and a submit that would have overwritten one of
\* them with the opposite rating has been answered.
VotesOnlyGrowWitness ==
    /\ BagCardinality(song_ratings) = 3
    /\ IsPost(request) /\ response # NoResponse
    /\ ValidPayload(request)
    /\ getClientIp(request).t = "string"
    /\ Row(request.body.songId.s, getClientIp(request).s, -request.body.rating.n)
         \in BagToSet(song_ratings)

\* C12: an answered check carries hasRated = true and the stored rating
\* exactly when the table holds a row for (songId, resolved identity of
\* the request), and hasRated = false with rating null otherwise.
CheckReportsOwnVote ==
    (IsCheck(request) /\ response.status = 200)
        => LET id == getClientIp(request)
               own == {row \in BagToSet(song_ratings) :
                          /\ row.song_id = request.params.songId.s
                          /\ id.t = "string"
                          /\ row.user_id = id.s}
           IN  IF own # {}
               THEN /\ response.hasRated = TRUE
                    /\ \E row \in own : response.rating = Num(row.rating)
               ELSE /\ response.hasRated = FALSE
                    /\ response.rating = Null

\* A check has been answered hasRated = false although another identity
\* has rated that song and the asking identity has rated the other song.
CheckReportsOwnVoteWitness ==
    /\ IsCheck(request) /\ response.status = 200
    /\ response.hasRated = FALSE
    /\ getClientIp(request).t = "string"
    /\ \E row \in BagToSet(song_ratings) :
         /\ row.song_id = request.params.songId.s
         /\ row.user_id # getClientIp(request).s
    /\ \E row \in BagToSet(song_ratings) :
         /\ row.song_id # request.params.songId.s
         /\ row.user_id = getClientIp(request).s

\* C13: the step that answers a get-tally or a check leaves the table as
\* it was, for every songId and identity, songs without rows and requests
\* without a resolvable identity included.
ReadsLeaveTable ==
    [][(Pending /\ (IsGet(request) \/ IsCheck(request)) /\ response' # NoResponse)
        => song_ratings' = song_ratings]_vars

\* A check for a song nobody has rated, from a peer with no resolvable
\* identity, has been answered while the table holds votes.
ReadsLeaveTableWitness ==
    /\ IsCheck(request) /\ response.status = 200
    /\ getClientIp(request) = Undefined
    /\ StoredVotes(song_ratings, request.params.songId.s, 1) = 0
    /\ StoredVotes(song_ratings, request.params.songId.s, -1) = 0
    /\ BagCardinality(song_ratings) = 2

\* C14 as stated: storage working, a valid submit is answered 201 whenever
\* the table has no row for its (songId, identity) pair.
FreshPairAccepted ==
    [][(PostAnswered /\ PostRatings("none") /\ ValidPayload(request)
            /\ ~AlreadyVoted(song_ratings, request))
        => response'.status = 201]_vars

\* C14 as amended: storage working, a valid submit whose identity resolves
\* to a string is answered 201 whenever the table has no row for its
\* (songId, identity) pair, whatever other rows there are.
FreshPairOfResolvedIdentityAccepted ==
    [][(PostAnswered /\ PostRatings("none") /\ ValidPayload(request)
            /\ getClientIp(request).t = "string"
            /\ ~AlreadyVoted(song_ratings, request))
        => response'.status = 201]_vars

\* A submit has been answered 201 although the song already had a vote of
\* another identity and the identity already had a vote for another song.
FreshPairOfResolvedIdentityAcceptedWitness ==
    /\ IsPost(request) /\ response.status = 201
    /\ \E row \in BagToSet(song_ratings) :
         /\ row.song_id = request.body.songId.s
         /\ row.user_id # getClientIp(request).s
    /\ \E row \in BagToSet(song_ratings) :
         /\ row.song_id # request.body.songId.s
         /\ row.user_id = getClientIp(request).s

\* The requesters that have submitted a rating for the song.
Submitters(song) ==
    {r \in Requesters : /\ pc[r] \in {"submitting", "done"}
                        /\ sent[r].body.songId = Str(song)}

TallyOf(song) ==
    getRatings(song_ratings,
               Request("GET /api/ratings/:songId",
                       Peer(Undefined, Undefined, Str(IpA), Str(IpA)),
                       [songId |-> Str(song)], NoBody),
               "none").res

\* C15: when the submissions issued for one song come from pairwise
\* distinct identities, every one of them that has been answered was
\* answered 201, in whatever order they reached the server, and once all
\* are answered the tally of the song is the number of submitted +1 votes
\* and the number of submitted -1 votes.
DistinctIdentitiesAllAccepted ==
    \A song \in SongIds :
        LET S == Submitters(song)
        IN  (\A r1, r2 \in S :
                r1 # r2 => getClientIp(sent[r1]) # getClientIp(sent[r2]))
            => /\ \A r \in S : pc[r] = "done" => reply[r].status = 201
               /\ (\A r \in S : pc[r] = "done")
                    => /\ TallyOf(song).thumbsUp
                            = Cardinality({r \in S : sent[r].body.rating = Num(1)})
                       /\ TallyOf(song).thumbsDown
                            = Cardinality({r \in S : sent[r].body.rating = Num(-1)})

\* Every requester has submitted for the same song, from pairwise
\* distinct identities and not all with the same rating, and all have
\* been answered 201.
DistinctIdentitiesAllAcceptedWitness ==
    \E song \in SongIds :
        /\ Submitters(song) = Requesters
        /\ \A r1, r2 \in Requesters :
             r1 # r2 => getClientIp(sent[r1]) # getClientIp(sent[r2])
        /\ \E r1, r2 \in Requesters : sent[r1].body.rating # sent[r2].body.rating
        /\ \A r \in Requesters : pc[r] = "done" /\ reply[r].status = 201

\* C19 as stated: a valid submit whose identity is undefined is handled
\* like any other: storage working, it is answered 201 and its vote is
\* stored.
UndefinedIdentityStored ==
    [][(PostAnswered /\ PostRatings("none") /\ ValidPayload(request)
            /\ getClientIp(request) = Undefined)
        => /\ response'.status = 201
           /\ BagCardinality(song_ratings') = BagCardinality(song_ratings) + 1]_vars

\* C19, amended: a valid submit whose identity is undefined is not turned
\* away by the handler's own validation (no 400); the undefined identity
\* goes to storage as the key, storage rejects it, and the submit is
\* answered 500 with no vote stored.
UndefinedIdentityRejectedByStorage ==
    [][(PostAnswered /\ ValidPayload(request)
            /\ getClientIp(request) = Undefined)
        => /\ response'.status = 500
           /\ song_ratings' = song_ratings]_vars

\* A valid submit from a request without any address source has been
\* answered with the failure of the NOT NULL constraint.
UndefinedIdentityRejectedByStorageWitness ==
    /\ IsPost(request) /\ ValidPayload(request)
    /\ getClientIp(request) = Undefined
    /\ response = Error(500, NotNullFailed)

-----------------------------------------------------------------------------
(* Identity resolution.                                                    *)

\* The part of a header value before its first comma: the prefix without
\* a comma that ends the value or is followed by a comma.
FirstToken(h) ==
    CHOOSE p \in {SubSeq(h, 1, k) : k \in 0..Len(h)} :
        /\ \A i \in 1..Len(p) : p[i] # ","
        /\ Len(p) = Len(h) \/ h[Len(p) + 1] = ","

\* o is p without the whitespace around it.
IsTrimmed(o, p) ==
    \E i \in 1..(Len(p) + 1), j \in 0..Len(p) :
        /\ o = SubSeq(p, i, j)
        /\ \A k \in 1..(i - 1) : p[k] \in WhiteSpace
        /\ \A k \in (j + 1)..Len(p) : p[k] \in WhiteSpace
        /\ o # <<>> => o[1] \notin WhiteSpace /\ o[Len(o)] \notin WhiteSpace

Blank(p) == \A i \in 1..Len(p) : p[i] \in WhiteSpace

Resolved == output # NotCalled

ForwardedFor == input.headers.x_forwarded_for
RealIp == input.headers.x_real_ip
SocketAddr == input.socket.remoteAddress
ConnectionAddr == input.connection.remoteAddress

\* C16 as stated: whenever the request carries an x-forwarded-for header,
\* the resolved identity is the first comma-separated token of the header
\* with the whitespace around it removed, whatever the x-real-ip header
\* and the peer addresses are.
ForwardedForWins ==
    (Resolved /\ ForwardedFor # Undefined)
        => /\ output.t = "string"
           /\ IsTrimmed(output.s, FirstToken(ForwardedFor.s))

\* C16, amended: whenever the request carries an x-forwarded-for header
\* whose first comma-separated token is not blank, the resolved identity
\* is that token with the whitespace around it removed, whatever the
\* x-real-ip header and the peer addresses are.
SolidForwardedForWins ==
    (/\ Resolved
     /\ ForwardedFor # Undefined
     /\ ~Blank(FirstToken(ForwardedFor.s)))
        => /\ output.t = "string"
           /\ IsTrimmed(output.s, FirstToken(ForwardedFor.s))

\* A padded, comma-separated header with all other sources present.
SolidForwardedForWinsWitness ==
    /\ input = Peer(Str(<<" ", "a", " ", ",", " ", "b">>), Str(IpB), Str(IpC), Str(IpD))
    /\ output = Str(IpA)

\* A source counts as missing when it is absent or empty, the
\* x-forwarded-for header when its first token is blank.
Missing(v) == v = Undefined \/ v = Str(<<>>)
ForwardedForMissing ==
    ForwardedFor = Undefined \/ Blank(FirstToken(ForwardedFor.s))

\* C17 as stated: without x-forwarded-for the identity is the x-real-ip
\* header verbatim; without both headers it is the socket's remote
\* address; without that too it is the connection's remote address; and
\* the identity comes from a lower source only when every higher source
\* is absent.  (The values the sources carry are pairwise different, so
\* the identity tells which source it came from.)
FallbackWhenAbsent ==
    Resolved =>
        /\ (ForwardedFor = Undefined /\ RealIp # Undefined) => output = RealIp
        /\ (/\ ForwardedFor = Undefined /\ RealIp = Undefined
            /\ SocketAddr # Undefined) => output = SocketAddr
        /\ (/\ ForwardedFor = Undefined /\ RealIp = Undefined
            /\ SocketAddr = Undefined) => output = ConnectionAddr
        /\ (output # Undefined /\ output = RealIp) => ForwardedFor = Undefined
        /\ (output # Undefined /\ output = SocketAddr)
              => ForwardedFor = Undefined /\ RealIp = Undefined
        /\ (output # Undefined /\ output = ConnectionAddr)
              => /\ ForwardedFor = Undefined /\ RealIp = Undefined
                 /\ SocketAddr = Undefined

\* C17, amended: the same order with "missing" (absent or empty) in place
\* of "absent": with x-forwarded-for missing the identity is the x-real-ip
\* header verbatim; with both headers missing it is the socket's remote
\* address; with that missing too it is the connection's remote address;
\* and the identity comes from a lower source only when every higher
\* source is missing.
FallbackWhenMissing ==
    Resolved =>
        /\ (ForwardedForMissing /\ ~Missing(RealIp)) => output = RealIp
        /\ (/\ ForwardedForMissing /\ Missing(RealIp)
            /\ ~Missing(SocketAddr)) => output = SocketAddr
        /\ (/\ ForwardedForMissing /\ Missing(RealIp)
            /\ Missing(SocketAddr)) => output = ConnectionAddr
        /\ (output # Undefined /\ output = RealIp) => ForwardedForMissing
        /\ (output # Undefined /\ output = SocketAddr)
              => ForwardedForMissing /\ Missing(RealIp)
        /\ (output # Undefined /\ output = ConnectionAddr)
              => /\ ForwardedForMissing /\ Missing(RealIp)
                 /\ Missing(SocketAddr)

\* An unpadded x-real-ip header is taken verbatim although both peer
\* addresses are there.
FallbackWhenMissingWitness ==
    /\ input = Peer(Undefined, Str(<<" ", "b">>), Str(IpC), Str(IpD))
    /\ output = Str(<<" ", "b">>)

\* C18: with the x-forwarded-for header, the x-real-ip header, the
\* socket's remote address and the connection's remote address all
\* absent, the resolution raises nothing and gives undefined.
NoSourceGivesUndefined ==
    (/\ Resolved
     /\ ForwardedFor = Undefined /\ RealIp = Undefined
     /\ SocketAddr = Undefined /\ ConnectionAddr = Undefined)
        => output # TypeError /\ output = Undefined

NoSourceGivesUndefinedWitness ==
    /\ input = Peer(Undefined, Undefined, Undefined, Undefined)
    /\ output = Undefined

-----------------------------------------------------------------------------
(* The song id.                                                            *)

Generated == output # NotCalled

LetterOrDigit(c) == (\E i \in 1..26 : LowerCase[i] = c) \/ c \in Digits

\* C20: for every artist and title the song id is made of lowercase
\* letters and digits and of the separator "||" once, between the artist
\* part and the title part; no whitespace and no punctuation of the input
\* is in it.
SongIdIsLettersDigitsAndSeparator ==
    Generated =>
        \E k \in 1..(Len(output.s) - 1) :
            /\ output.s[k] = "|" /\ output.s[k + 1] = "|"
            /\ \A i \in (1..Len(output.s)) \ {k, k + 1} :
                 LetterOrDigit(output.s[i])

\* id.split('||'): the parts between the occurrences of "||", found from
\* the left without overlap.
RECURSIVE SplitOnSeparator(_)
SplitOnSeparator(s) ==
    LET at == {k \in 1..(Len(s) - 1) : s[k] = "|" /\ s[k + 1] = "|"}
    IN  IF at = {} THEN <<s>>
        ELSE LET k == CHOOSE k \in at : \A j \in at : k <= j
             IN  <<SubSeq(s, 1, k - 1)>> \o SplitOnSeparator(SubSeq(s, k + 2, Len(s)))

\* A text in lower case without anything but its letters and digits.
Normalized(text) == SelectSeq(ToLowerCase(text), LetterOrDigit)

\* C21: for every artist and title the song id splits on "||" into exactly
\* two parts: the normalized artist and the normalized title.
SongIdSplitsInTwo ==
    Generated =>
        SplitOnSeparator(output.s)
            = <<Normalized(input.artist.s), Normalized(input.title.s)>>

-----------------------------------------------------------------------------
(* The elapsed time.                                                       *)

\* The number a sequence of decimal digits stands for.
RECURSIVE NumeralValue(_)
NumeralValue(digits) ==
    IF digits = <<>> THEN 0
    ELSE 10 * NumeralValue(SubSeq(digits, 1, Len(digits) - 1))
            + DigitValue(digits[Len(digits)])

\* A numeral as it is written: digits only, no zero in front of others.
IsNumeral(digits) ==
    /\ Len(digits) >= 1
    /\ \A i \in 1..Len(digits) : digits[i] \in Digits
    /\ Len(digits) > 1 => digits[1] # "0"

\* C26: for every non-negative number of seconds formatTime gives the
\* numeral of seconds div 60 (however large, never wrapped into hours), a
\* colon, and seconds mod 60 in exactly two digits.
FormatTimeIsMinutesColonSeconds ==
    (output # NotCalled) =>
        LET n == Len(output.s)
        IN  /\ n >= 4
            /\ output.s[n - 2] = ":"
            /\ IsNumeral(SubSeq(output.s, 1, n - 3))
            /\ NumeralValue(SubSeq(output.s, 1, n - 3)) = input \div 60
            /\ output.s[n - 1] \in Digits /\ output.s[n] \in Digits
            /\ NumeralValue(SubSeq(output.s, n - 1, n)) = input % 60

\* An hour is sixty minutes and no seconds.
FormatTimeIsMinutesColonSecondsWitness ==
    input = 3600 /\ output = Str(<<"6", "0", ":", "0", "0">>)

\* C30: under any sequence of play-button clicks and audio events at
\* most one interval timer is active, and elapsedSeconds changes only by
\* growing by one, in a tick of that timer, while isPlaying is true.
OneTimerTicksWhilePlaying ==
    [][/\ activeIntervals <= 1 /\ activeIntervals' <= 1
       /\ elapsedSeconds' # elapsedSeconds
            => /\ isPlaying
               /\ activeIntervals = 1
               /\ elapsedSeconds' = elapsedSeconds + 1]_vars

\* The timer has counted while the stream played and is running again,
\* started by a 'playing' event, although the player is paused.
OneTimerTicksWhilePlayingWitness ==
    /\ ~isPlaying
    /\ elapsedSeconds >= 2
    /\ activeIntervals = 1 /\ timerInterval = Handle

-----------------------------------------------------------------------------
(* The page and its ratings.                                               *)

\* The two tracks are different songs: their artists or their titles
\* differ in more than case, spacing and punctuation.
DifferentSongs(one, other) ==
    \/ Normalized(one.artist.s) # Normalized(other.artist.s)
    \/ Normalized(one.title.s) # Normalized(other.title.s)

\* C22: when the track that is playing gives way to a different song, the
\* song id changes: two different songs never have the same song id.
DifferentSongsDifferentIds ==
    [][\A data \in Metadata :
         (/\ UpdateNowPlaying(data)
          /\ nowPlaying # NothingPlaying
          /\ DifferentSongs(nowPlaying, nowPlaying'))
            => currentSongId' # currentSongId]_vars

\* C23: the song id depends on the artist and the title alone: when the
\* metadata names the track that is already on the page, whatever the
\* page's ratings state is by then, the id computed again is the id
\* computed before, so currentSongId stays and no song change is seen.
SameTrackSameId ==
    [][\A data \in Metadata :
         (/\ UpdateNowPlaying(data)
          /\ nowPlaying = [artist |-> ArtistOf(data), title |-> TitleOf(data)])
            => /\ currentSongId' = currentSongId
               /\ hasRatedCurrentSong' = hasRatedCurrentSong
               /\ calls' = calls]_vars

\* The track on the page has been rated by this page and the other
\* listener, and no call is under way: the state a repeated metadata
\* update meets ten seconds later.
SameTrackSameIdWitness ==
    /\ nowPlaying = [artist |-> Str(UnknownArtist), title |-> Str(<<"E">>)]
    /\ currentSongId = generateSongId(Str(UnknownArtist), Str(<<"E">>))
    /\ hasRatedCurrentSong /\ currentRating = Num(-1)
    /\ calls = EmptyBag
    /\ StoredVotes(song_ratings, currentSongId.s, 1) = 1

\* A reply that carries a tally: the answer of the tally route, or of a
\* submit that succeeded.
CarriesTally(c) ==
    \/ c.at = "tallied" /\ c.res.status = 200
    \/ c.at = "posted" /\ c.res.status = 201

\* C25: every tally the server sends, in answer to a get-tally or to a
\* submit that succeeded, is the tally of the table as it is when the
\* answer is made: thumbsUp and thumbsDown count the rows of the song in
\* that one table, the votes committed until then all included, while
\* other requests of this page and another listener's submits are under
\* way.
TallyIsLedgerSnapshot ==
    [][\A c \in BagToSet(calls') :
         (CopiesIn(c, calls') > CopiesIn(c, calls) /\ CarriesTally(c))
            => /\ c.res.thumbsUp = StoredVotes(song_ratings', c.songId.s, 1)
               /\ c.res.thumbsDown = StoredVotes(song_ratings', c.songId.s, -1)]_vars

\* The page's submit has been answered with a tally that counts the other
\* listener's vote too, while a fetchRatings of the page is under way.
TallyIsLedgerSnapshotWitness ==
    \E c, d \in BagToSet(calls) :
        /\ c.fn = "submitRating" /\ c.at = "posted" /\ c.res.status = 201
        /\ c.rating = Num(1) /\ c.res.thumbsUp = 2 /\ c.res.thumbsDown = 0
        /\ d.fn = "fetchRatings" /\ d.songId = c.songId

\* C27: whenever hasRatedCurrentSong is true, the table holds a vote of
\* this page's identity for the song currentSongId names, also when the
\* song changes while a response for the previous song is on its way.
RatedMeansVoteStored ==
    hasRatedCurrentSong
        => /\ currentSongId # Null
           /\ StoredForKey(song_ratings, currentSongId.s, IpA) >= 1

\* C28: the page never has two submits for one song under way: after a
\* click has sent a submit, no click sends another for that song before
\* the first is answered.
OneSubmitUnderWay ==
    \A c \in BagToSet(calls) :
        c.fn = "submitRating"
            => /\ CopiesIn(c, calls) = 1
               /\ \A d \in BagToSet(calls) :
                    (d.fn = "submitRating" /\ d.songId = c.songId) => d = c

\* C29: a metadata update whose song id equals currentSongId leaves
\* currentSongId, hasRatedCurrentSong and currentRating as they are and
\* starts no request; one whose song id differs makes it currentSongId,
\* makes hasRatedCurrentSong false and starts exactly one fetchRatings,
\* for the new id.
SongChangeResetsAndFetchesOnce ==
    [][\A data \in Metadata :
         UpdateNowPlaying(data)
            => IF NewSongId(data) = currentSongId
               THEN /\ UNCHANGED <<currentSongId, hasRatedCurrentSong, currentRating>>
                    /\ calls' = calls
               ELSE /\ currentSongId' = NewSongId(data)
                    /\ hasRatedCurrentSong' = FALSE
                    /\ calls' = calls (+) SetToBag({Call("fetchRatings",
                                                          NewSongId(data), Null,
                                                          "tally", NoResponse)})]_vars

\* The song has changed after the page rated the one before: the rating
\* of the old song is still in currentRating, hasRatedCurrentSong is
\* false, and the one fetchRatings for the new song is the only call.
SongChangeResetsAndFetchesOnceWitness ==
    /\ currentSongId # Null
    /\ ~hasRatedCurrentSong
    /\ currentRating = Num(1)
    /\ StoredForKey(song_ratings, currentSongId.s, IpA) = 0
    /\ calls = SetToBag({Call("fetchRatings", currentSongId, Null, "tally", NoResponse)})

====
